---- MODULE Spec2Model ----
(***************************************************************************)
(* Model of SingleLinkedList<Type> (single-linked-list.h).                 *)
(*                                                                         *)
(* The heap is a finite pool of Node cells.  Every list object owns an     *)
(* inline sentinel node head_ and a counter size_.  Addresses: 0 is        *)
(* nullptr, 1..MaxNodes are heap cells, MaxNodes + l is the address of the *)
(* sentinel of list object l.  Two extra list objects stand for the local  *)
(* variables `tmp` of operator= and of PushListTmp.                        *)
(***************************************************************************)
EXTENDS Integers, Sequences, FiniteSets, TLC

\* ---- bounds ----
MaxNodes == 3
NumLists == 2
MaxVal == 2
MaxLen == 3

\* assert() is active: the header includes <cassert> and never defines NDEBUG
NDEBUG == FALSE

nullptr == 0
Nodes == 1..MaxNodes
Values == 1..MaxVal
Lists == 1..NumLists
\* the local `tmp` of operator= and the local `tmp` of PushListTmp
TmpAssign == NumLists + 1
TmpPush == NumLists + 2
AllLists == 1..(NumLists + 2)

\* address of the sentinel node head_ of list object l
head_(l) == MaxNodes + l
Addrs == 1..(MaxNodes + NumLists + 2)

RECURSIVE SeqsUpTo(_)
SeqsUpTo(n) == IF n = 0 THEN {<<>>}
               ELSE SeqsUpTo(n - 1) \cup [1..n -> Values]

VARIABLES
    value,      \* Node::value of every heap cell (0 when not allocated)
    next_node,  \* Node::next_node of every heap cell and every sentinel
    size_,      \* SingleLinkedList::size_ of every list object
    alloc,      \* heap cells obtained from new and not yet deleted
    double_free, \* some cell was deleted while it was not allocated
    live,       \* list objects whose lifetime has begun and not ended
    aborted,    \* the process was terminated (failed assert / crash)
    op          \* the last call: name, arguments, result

vars == <<value, next_node, size_, alloc, double_free, live, aborted, op>>

\* ---- the heap as a value, so that calls compose ----
\* budget: how many further `new` succeed; thrown: std::bad_alloc in flight
Heap(budget) ==
    [value |-> value, next_node |-> next_node, size_ |-> size_,
     alloc |-> alloc, double_free |-> double_free,
     budget |-> budget, thrown |-> FALSE]

\* the cell the allocator hands out next
NewNode(h) == CHOOSE n \in Nodes \ h.alloc : \A m \in Nodes \ h.alloc : n <= m

\* new Node(val, next)
New(h, val, next) ==
    IF h.budget = 0
    THEN [h EXCEPT !.thrown = TRUE]
    ELSE [h EXCEPT !.alloc = @ \cup {NewNode(h)},
                   !.value[NewNode(h)] = val,
                   !.next_node[NewNode(h)] = next,
                   !.budget = @ - 1]

\* delete n
Delete(h, n) ==
    [h EXCEPT !.alloc = @ \ {n}, !.value[n] = 0, !.next_node[n] = nullptr,
              !.double_free = @ \/ n \notin h.alloc]

\* nodes met by following next_node from n until nullptr
RECURSIVE Walk(_, _, _)
Walk(h, n, fuel) ==
    IF n = nullptr \/ fuel = 0 THEN <<>>
    ELSE <<n>> \o Walk(h, h.next_node[n], fuel - 1)

\* begin() .. end(): the real nodes of l in iteration order
Chain(h, l) == Walk(h, h.next_node[head_(l)], MaxNodes + 1)
\* the values read by iterating l
Elems(h, l) == [i \in 1..Len(Chain(h, l)) |-> h.value[Chain(h, l)[i]]]

GetSize(h, l) == h.size_[l]
IsEmpty(h, l) == GetSize(h, l) = 0

\* SingleLinkedList(): head_.next_node = nullptr, size_ = 0
DefaultInit(h, l) ==
    [h EXCEPT !.next_node[head_(l)] = nullptr, !.size_[l] = 0]

SetSizeH(h, l, size) == [h EXCEPT !.size_[l] = size]

InitHead(h, l, val) ==
    LET h1 == New(h, val, nullptr) IN
    IF h1.thrown THEN h1
    ELSE [h1 EXCEPT !.next_node[head_(l)] = NewNode(h), !.size_[l] = @ + 1]

\* mutant: the new node is not linked to the former first node
PushFrontH_DropsTail(h, l, val) ==
    LET h1 == New(h, val, nullptr) IN
    IF h1.thrown THEN h1
    ELSE [h1 EXCEPT !.next_node[head_(l)] = NewNode(h), !.size_[l] = @ + 1]

\* mutant: the counter is bumped before the allocation is attempted
PushFrontH_CountFirst(h, l, val) ==
    LET h0 == [h EXCEPT !.size_[l] = @ + 1]
        h1 == New(h0, val, h.next_node[head_(l)]) IN
    IF h1.thrown THEN h1
    ELSE [h1 EXCEPT !.next_node[head_(l)] = NewNode(h)]

PushFrontH(h, l, val) ==
    LET h1 == New(h, val, h.next_node[head_(l)]) IN
    IF h1.thrown THEN h1
    ELSE [h1 EXCEPT !.next_node[head_(l)] = NewNode(h), !.size_[l] = @ + 1]

\* mutant: the node is always linked behind the sentinel, whatever pos is
InsertAfterH_AtFront(h, l, pos, val) ==
    LET h1 == New(h, val, h.next_node[head_(l)]) IN
    IF h1.thrown THEN h1
    ELSE [h1 EXCEPT !.next_node[head_(l)] = NewNode(h), !.size_[l] = @ + 1]

\* the returned iterator is Iterator{pos.node_->next_node} = NewNode(h)
InsertAfterH(h, l, pos, val) ==
    LET h1 == New(h, val, h.next_node[pos]) IN
    IF h1.thrown THEN h1
    ELSE [h1 EXCEPT !.next_node[pos] = NewNode(h), !.size_[l] = @ + 1]

\* mutant: the first node is unlinked but never deleted
PopFrontH_Leak(h, l) ==
    IF IsEmpty(h, l) THEN h
    ELSE LET del_pointer == h.next_node[head_(l)] IN
         [h EXCEPT !.next_node[head_(l)] = h.next_node[del_pointer],
                   !.size_[l] = @ - 1]

\* mutant: --size_ is forgotten
PopFrontH_NoCount(h, l) ==
    IF IsEmpty(h, l) THEN h
    ELSE LET del_pointer == h.next_node[head_(l)] IN
         Delete([h EXCEPT !.next_node[head_(l)] = h.next_node[del_pointer]],
                del_pointer)

PopFrontH(h, l) ==
    IF IsEmpty(h, l) THEN h
    ELSE LET del_pointer == h.next_node[head_(l)] IN
         Delete([h EXCEPT !.next_node[head_(l)] = h.next_node[del_pointer],
                          !.size_[l] = @ - 1],
                del_pointer)

\* mutant: the node pos itself is deleted instead of its successor
EraseAfterH_DeletesPos(h, l, pos) ==
    IF IsEmpty(h, l) THEN h
    ELSE LET delete_node == IF pos \in Nodes THEN pos ELSE h.next_node[pos] IN
         Delete([h EXCEPT !.next_node[pos] = h.next_node[h.next_node[pos]],
                          !.size_[l] = @ - 1],
                delete_node)

\* mutant: the unlinked node is never deleted
EraseAfterH_Leak(h, l, pos) ==
    IF IsEmpty(h, l) THEN h
    ELSE LET delete_node == h.next_node[pos] IN
         [h EXCEPT !.next_node[pos] = h.next_node[delete_node],
                   !.size_[l] = @ - 1]

EraseAfterH(h, l, pos) ==
    IF IsEmpty(h, l) THEN h
    ELSE LET delete_node == h.next_node[pos] IN
         Delete([h EXCEPT !.next_node[pos] = h.next_node[delete_node],
                          !.size_[l] = @ - 1],
                delete_node)
EraseAfterRet(h, l, pos) ==
    IF IsEmpty(h, l) THEN nullptr
    ELSE h.next_node[h.next_node[pos]]

RECURSIVE ClearLoop(_, _, _)
ClearLoop(h, l, fuel) ==
    IF h.next_node[head_(l)] = nullptr \/ fuel = 0 THEN h
    ELSE LET node_to_delete == h.next_node[head_(l)] IN
         ClearLoop(Delete([h EXCEPT !.next_node[head_(l)] =
                                        h.next_node[node_to_delete]],
                          node_to_delete),
                   l, fuel - 1)

\* mutant: only the first node is deleted
ClearH_OnlyFirst(h, l) ==
    IF h.size_[l] = 0 THEN h
    ELSE [Delete([h EXCEPT !.next_node[head_(l)] = nullptr],
                 h.next_node[head_(l)])
            EXCEPT !.size_[l] = 0]

ClearH(h, l) ==
    IF h.size_[l] = 0 THEN h
    ELSE [ClearLoop(h, l, MaxNodes + 1) EXCEPT !.size_[l] = 0]

\* mutant: the destructor does not call Clear()
Destructor_NoClear(h, l) ==
    [h EXCEPT !.next_node[head_(l)] = nullptr, !.size_[l] = 0]

\* ~SingleLinkedList(); afterwards the object's storage is gone
Destructor(h, l) ==
    [ClearH(h, l) EXCEPT !.next_node[head_(l)] = nullptr, !.size_[l] = 0]

\* mutant: the counters are exchanged but the chains are not
swapH_SizeOnly(h, l, other) ==
    IF IsEmpty(h, other) THEN h
    ELSE [h EXCEPT !.size_[other] = h.size_[l],
                   !.size_[l] = h.size_[other]]

swapH(h, l, other) ==
    IF IsEmpty(h, other) THEN h
    ELSE [h EXCEPT !.size_[other] = h.size_[l],
                   !.size_[l] = h.size_[other],
                   !.next_node[head_(other)] = h.next_node[head_(l)],
                   !.next_node[head_(l)] = h.next_node[head_(other)]]

\* the while loop of PushListTmp: vals[i..] are still to be read, tmp_p is
\* the iterator to the last node of tmp
RECURSIVE PushLoop(_, _, _, _)
PushLoop(h, vals, i, tmp_p) ==
    IF i > Len(vals) THEN h
    ELSE LET h1 == InsertAfterH(h, TmpPush, tmp_p, vals[i]) IN
         IF h1.thrown THEN h1
         ELSE PushLoop(h1, vals, i + 1, NewNode(h))

\* PushListTmp(begin, end) where vals is what *p reads in turn (non-empty)
PushListTmp(h, l, vals) ==
    LET h0 == DefaultInit(h, TmpPush)
        h1 == InitHead(h0, TmpPush, vals[1])
        h2 == IF h1.thrown THEN h1
              ELSE PushLoop(h1, vals, 2, h1.next_node[head_(TmpPush)])
        h3 == IF h2.thrown THEN h2 ELSE swapH(h2, l, TmpPush)
    IN  Destructor(h3, TmpPush)

\* mutant: the new list points at the nodes of other instead of copying them
CopyCtor_Shallow(h, l, other) ==
    [h EXCEPT !.next_node[head_(l)] = h.next_node[head_(other)],
              !.size_[l] = h.size_[other]]

\* SingleLinkedList(const SingleLinkedList& other) for the new object l
CopyCtor(h, l, other) ==
    LET h0 == DefaultInit(h, l) IN
    IF IsEmpty(h0, other) THEN h0
    ELSE PushListTmp(h0, l, Elems(h0, other))

\* the body of operator= after the assert
OperatorAssign(h, l, rhs) ==
    IF l # rhs
    THEN LET h1 == CopyCtor(h, TmpAssign, rhs)
             h2 == IF h1.thrown THEN h1 ELSE swapH(h1, l, TmpAssign)
         IN  IF h1.thrown
             THEN [h1 EXCEPT !.next_node[head_(TmpAssign)] = nullptr,
                             !.size_[TmpAssign] = 0]
             ELSE Destructor(h2, TmpAssign)
    ELSE h

\* ---- the free relational operators ----
\* std::equal(first1, last1, first2, last2) with last1 = last2 = nullptr
RECURSIVE StdEqual(_, _, _, _)
StdEqual(h, first1, first2, fuel) ==
    IF first1 = nullptr \/ first2 = nullptr \/ fuel = 0
    THEN first1 = nullptr /\ first2 = nullptr
    ELSE IF h.value[first1] # h.value[first2] THEN FALSE
    ELSE StdEqual(h, h.next_node[first1], h.next_node[first2], fuel - 1)

\* mutant: only the sizes are compared
OperatorEq_SizeOnly(h, lhs, rhs) ==
    GetSize(h, lhs) = GetSize(h, rhs)

\* operator==
OperatorEq(h, lhs, rhs) ==
    IF h.next_node[head_(lhs)] = h.next_node[head_(rhs)]
    THEN TRUE
    ELSE /\ GetSize(h, lhs) = GetSize(h, rhs)
         /\ StdEqual(h, h.next_node[head_(lhs)], h.next_node[head_(rhs)],
                     MaxNodes + 1)

\* operator!=
OperatorNe(h, lhs, rhs) == ~OperatorEq(h, lhs, rhs)

\* std::lexicographical_compare(first1, last1, first2, last2) with
\* last1 = last2 = nullptr
RECURSIVE LexicographicalCompare(_, _, _, _)
LexicographicalCompare(h, first1, first2, fuel) ==
    IF first1 = nullptr \/ first2 = nullptr \/ fuel = 0
    THEN first1 = nullptr /\ first2 # nullptr
    ELSE IF h.value[first1] < h.value[first2] THEN TRUE
    ELSE IF h.value[first2] < h.value[first1] THEN FALSE
    ELSE LexicographicalCompare(h, h.next_node[first1], h.next_node[first2],
                                fuel - 1)

\* mutant: a shorter list is smaller, whatever the elements are
OperatorLess_ShorterFirst(h, lhs, rhs) ==
    \/ GetSize(h, lhs) < GetSize(h, rhs)
    \/ LexicographicalCompare(h, h.next_node[head_(lhs)],
                              h.next_node[head_(rhs)], MaxNodes + 1)

\* operator<
OperatorLess(h, lhs, rhs) ==
    LexicographicalCompare(h, h.next_node[head_(lhs)],
                           h.next_node[head_(rhs)], MaxNodes + 1)

\* operator>
OperatorGreater(h, lhs, rhs) == OperatorLess(h, rhs, lhs)

\* operator<=
OperatorLessEq(h, lhs, rhs) == ~OperatorLess(h, rhs, lhs)

\* operator>=
OperatorGreaterEq(h, lhs, rhs) == ~OperatorGreater(h, rhs, lhs)

\* ---- observations of the current state ----
Cur == Heap(0)
\* node identities of l in iteration order
ListNodes(l) == Chain(Cur, l)
\* element sequence of l in iteration order
ListVals(l) == Elems(Cur, l)
FreeCells == Cardinality(Nodes \ alloc)
\* cursors that reference the sentinel or a real node of l
Cursors(l) == {head_(l)} \cup {ListNodes(l)[i] : i \in 1..Len(ListNodes(l))}

Call(name, this, other, pos, val, vals, ret, thrown) ==
    [name |-> name, this |-> this, other |-> other, pos |-> pos,
     val |-> val, vals |-> vals, ret |-> ret, thrown |-> thrown]

\* the heap h becomes the state
Commit(h) ==
    /\ value' = h.value
    /\ next_node' = h.next_node
    /\ size_' = h.size_
    /\ alloc' = h.alloc
    /\ double_free' = h.double_free

\* a failed assert() or a crash: the process stops where it is
Abort ==
    /\ aborted' = TRUE
    /\ UNCHANGED <<value, next_node, size_, alloc, double_free, live>>

Init ==
    /\ value = [n \in Nodes |-> 0]
    /\ next_node = [a \in Addrs |-> nullptr]
    /\ size_ = [l \in AllLists |-> 0]
    /\ alloc = {}
    /\ double_free = FALSE
    /\ live = [l \in Lists |-> FALSE]
    /\ aborted = FALSE
    /\ op = Call("none", 0, 0, 0, 0, <<>>, 0, FALSE)

\* SingleLinkedList l;
DefaultConstruct(l) ==
    /\ ~aborted /\ ~live[l]
    /\ Commit(DefaultInit(Cur, l))
    /\ live' = [live EXCEPT ![l] = TRUE]
    /\ op' = Call("DefaultConstruct", l, 0, 0, 0, <<>>, 0, FALSE)
    /\ UNCHANGED aborted

\* SingleLinkedList l(values); read is what *p yields in turn and budget
\* the number of `new` that succeed
SequenceConstructRead(l, values, read, budget) ==
    LET h == PushListTmp(DefaultInit(Heap(budget), l), l, read) IN
    /\ ~aborted /\ ~live[l]
    /\ budget <= FreeCells
    /\ IF h.thrown
       THEN Commit(DefaultInit(h, l)) /\ UNCHANGED live
       ELSE Commit(h) /\ live' = [live EXCEPT ![l] = TRUE]
    /\ op' = Call("SequenceConstruct", l, 0, 0, 0, values, 0, h.thrown)
    /\ UNCHANGED aborted

\* an out-of-bounds read faults
SequenceConstructCrash(l) ==
    /\ ~aborted /\ ~live[l]
    /\ Abort
    /\ op' = Call("SequenceConstruct", l, 0, 0, 0, <<>>, 0, FALSE)

\* For an empty range PushListTmp dereferences begin == end and then steps
\* p past end, so p != end never becomes false: the loop reads whatever
\* lies behind the range until a read faults or `new` throws.
SequenceConstruct(l, values) ==
    IF values # <<>>
    THEN \E budget \in 0..Len(values) :
            SequenceConstructRead(l, values, values, budget)
    ELSE \/ \E garbage \in SeqsUpTo(MaxLen) \ {<<>>} :
              SequenceConstructRead(l, values, garbage, Len(garbage) - 1)
         \/ SequenceConstructCrash(l)

\* SingleLinkedList l(other);
CopyConstruct(l, other) ==
    /\ ~aborted /\ ~live[l] /\ live[other]
    /\ \E budget \in 0..Len(ListNodes(other)) :
         LET h == CopyCtor(Heap(budget), l, other) IN
         /\ budget <= FreeCells
         /\ IF h.thrown
            THEN Commit(DefaultInit(h, l)) /\ UNCHANGED live
            ELSE Commit(h) /\ live' = [live EXCEPT ![l] = TRUE]
         /\ op' = Call("CopyConstruct", l, other, 0, 0, <<>>, 0, h.thrown)
    /\ UNCHANGED aborted

PushFront(l, val) ==
    /\ ~aborted /\ live[l]
    /\ \E budget \in 0..1 :
         LET h == PushFrontH(Heap(budget), l, val) IN
         /\ budget <= FreeCells
         /\ Commit(h)
         /\ op' = Call("PushFront", l, 0, 0, val, <<>>, 0, h.thrown)
    /\ UNCHANGED <<live, aborted>>

\* pos references the sentinel or a real node of l
InsertAfter(l, pos, val) ==
    /\ ~aborted /\ live[l]
    /\ pos \in Cursors(l)
    /\ \E budget \in 0..1 :
         LET h == InsertAfterH(Heap(budget), l, pos, val) IN
         /\ budget <= FreeCells
         /\ Commit(h)
         /\ op' = Call("InsertAfter", l, 0, pos, val, <<>>,
                       IF h.thrown THEN 0 ELSE h.next_node[pos], h.thrown)
    /\ UNCHANGED <<live, aborted>>

PopFront(l) ==
    /\ ~aborted /\ live[l]
    /\ Commit(PopFrontH(Cur, l))
    /\ op' = Call("PopFront", l, 0, 0, 0, <<>>, 0, FALSE)
    /\ UNCHANGED <<live, aborted>>

\* pos references the sentinel or a real node of l and has a successor,
\* or l is empty
EraseAfter(l, pos) ==
    /\ ~aborted /\ live[l]
    /\ \/ IsEmpty(Cur, l) /\ pos \in {head_(l), nullptr}
       \/ pos \in Cursors(l) /\ next_node[pos] # nullptr
    /\ Commit(EraseAfterH(Cur, l, pos))
    /\ op' = Call("EraseAfter", l, 0, pos, 0, <<>>,
                  EraseAfterRet(Cur, l, pos), FALSE)
    /\ UNCHANGED <<live, aborted>>

Clear(l) ==
    /\ ~aborted /\ live[l]
    /\ Commit(ClearH(Cur, l))
    /\ op' = Call("Clear", l, 0, 0, 0, <<>>, 0, FALSE)
    /\ UNCHANGED <<live, aborted>>

\* l.swap(other), also reached through the free function swap(l, other)
swap(l, other) ==
    /\ ~aborted /\ live[l] /\ live[other]
    /\ Commit(swapH(Cur, l, other))
    /\ op' = Call("swap", l, other, 0, 0, <<>>, 0, FALSE)
    /\ UNCHANGED <<live, aborted>>

\* swap(l, other); swap(l, other);
SwapTwice(l, other) ==
    /\ ~aborted /\ live[l] /\ live[other]
    /\ Commit(swapH(swapH(Cur, l, other), l, other))
    /\ op' = Call("SwapTwice", l, other, 0, 0, <<>>, 0, FALSE)
    /\ UNCHANGED <<live, aborted>>

\* l = rhs;
Assign(l, rhs) ==
    /\ ~aborted /\ live[l] /\ live[rhs]
    /\ IF ~NDEBUG /\ next_node[head_(l)] = next_node[head_(rhs)]
       THEN /\ Abort
            /\ op' = Call("Assign", l, rhs, 0, 0, <<>>, 0, FALSE)
       ELSE /\ \E budget \in 0..Len(ListNodes(rhs)) :
                 LET h == OperatorAssign(Heap(budget), l, rhs) IN
                 /\ budget <= FreeCells
                 /\ Commit(h)
                 /\ op' = Call("Assign", l, rhs, 0, 0, <<>>, 0, h.thrown)
            /\ UNCHANGED <<live, aborted>>

\* *it = val for an iterator it referencing the real node n of l
WriteValue(l, n, val) ==
    /\ ~aborted /\ live[l]
    /\ n \in Cursors(l) \ {head_(l)}
    /\ value' = [value EXCEPT ![n] = val]
    /\ op' = Call("WriteValue", l, 0, n, val, <<>>, 0, FALSE)
    /\ UNCHANGED <<next_node, size_, alloc, double_free, live, aborted>>

\* the lifetime of l ends
Destroy(l) ==
    /\ ~aborted /\ live[l]
    /\ Commit(Destructor(Cur, l))
    /\ live' = [live EXCEPT ![l] = FALSE]
    /\ op' = Call("Destroy", l, 0, 0, 0, <<>>, 0, FALSE)
    /\ UNCHANGED aborted

Next ==
    \/ \E l \in Lists : DefaultConstruct(l)
    \/ \E l \in Lists, values \in SeqsUpTo(MaxLen) : SequenceConstruct(l, values)
    \/ \E l, other \in Lists : CopyConstruct(l, other)
    \/ \E l \in Lists, val \in Values : PushFront(l, val)
    \/ \E l \in Lists, pos \in Addrs, val \in Values : InsertAfter(l, pos, val)
    \/ \E l \in Lists : PopFront(l)
    \/ \E l \in Lists, pos \in Addrs \cup {nullptr} : EraseAfter(l, pos)
    \/ \E l \in Lists : Clear(l)
    \/ \E l, other \in Lists : swap(l, other)
    \/ \E l, other \in Lists : SwapTwice(l, other)
    \/ \E l, rhs \in Lists : Assign(l, rhs)
    \/ \E l \in Lists, n \in Nodes, val \in Values : WriteValue(l, n, val)
    \/ \E l \in Lists : Destroy(l)

Spec == Init /\ [][Next]_vars

\* ---- the public helpers InitHead and SetSize ----
\* l.InitHead(val);
InitHeadPublic(l, val) ==
    /\ ~aborted /\ live[l]
    /\ \E budget \in 0..1 :
         LET h == InitHead(Heap(budget), l, val) IN
         /\ budget <= FreeCells
         /\ Commit(h)
         /\ op' = Call("InitHead", l, 0, 0, val, <<>>, 0, h.thrown)
    /\ UNCHANGED <<live, aborted>>

\* l.SetSize(size);
SetSize(l, size) ==
    /\ ~aborted /\ live[l]
    /\ Commit(SetSizeH(Cur, l, size))
    /\ op' = Call("SetSize", l, 0, 0, size, <<>>, 0, FALSE)
    /\ UNCHANGED <<live, aborted>>

\* The helpers together with the calls whose behaviour is defined whatever
\* size_ holds (they never dereference a link on the strength of size_).
NextPublic ==
    \/ \E l \in Lists : DefaultConstruct(l)
    \/ \E l \in Lists, val \in Values : PushFront(l, val)
    \/ \E l \in Lists : Clear(l)
    \/ \E l \in Lists : Destroy(l)
    \/ \E l \in Lists, val \in Values : InitHeadPublic(l, val)
    \/ \E l \in Lists, size \in 0..MaxNodes : SetSize(l, size)

SpecPublic == Init /\ [][NextPublic]_vars

\* ---- properties ----
\* the node reached from n by following next_node k times
RECURSIVE Follow(_, _)
Follow(n, k) ==
    IF k = 0 \/ n = nullptr THEN n ELSE Follow(next_node[n], k - 1)

NoRepeat(seq) == \A i, j \in 1..Len(seq) : i # j => seq[i] # seq[j]

\* C1: for every live list, GetSize() equals the number of real nodes
\* reachable from head_.next_node, and following the links GetSize() times
\* from the first node reaches nullptr (and not earlier): the chain is
\* acyclic and terminated
C1_SizeEqualsChain ==
    \A l \in Lists : live[l] =>
        /\ GetSize(Cur, l) = Len(ListNodes(l))
        /\ Follow(next_node[head_(l)], GetSize(Cur, l)) = nullptr
        /\ \A k \in 0..(GetSize(Cur, l) - 1) :
              Follow(next_node[head_(l)], k) # nullptr
        /\ NoRepeat(ListNodes(l))

\* two live lists of sizes 2 and 1 have just exchanged their chains
C1_Witness ==
    /\ op.name = "swap" /\ ~aborted
    /\ op.this # op.other
    /\ size_[op.this] = 2 /\ size_[op.other] = 1

\* C2: after a.swap(b) for distinct lists a and b, a has the elements and
\* size b had, and b has the elements and size a had, whichever side is empty
C2_SwapExchanges ==
    [][\A a, b \in Lists :
         (op'.name = "swap" /\ op'.this = a /\ op'.other = b /\ a # b) =>
             /\ ListVals(a)' = ListVals(b)
             /\ ListVals(b)' = ListVals(a)
             /\ size_'[a] = size_[b]
             /\ size_'[b] = size_[a]]_vars

\* C3: swap(l1, l2) followed by swap(l1, l2) leaves both lists with the
\* element sequence and size they had, for distinct l1 and l2
C3_SwapTwiceRestores ==
    [][\A a, b \in Lists :
         (op'.name = "SwapTwice" /\ op'.this = a /\ op'.other = b /\ a # b) =>
             /\ ListVals(a)' = ListVals(a)
             /\ ListVals(b)' = ListVals(b)
             /\ size_'[a] = size_[a]
             /\ size_'[b] = size_[b]]_vars

NodeSet(l) == {ListNodes(l)[i] : i \in 1..Len(ListNodes(l))}

\* C4: after a = b has returned normally for distinct lists a and b, a has
\* the element sequence and size of b, b is unchanged, and a shares no node
\* with b; also for an empty b assigned to a non-empty a
C4_AssignCopies ==
    [][\A a, b \in Lists :
         (op'.name = "Assign" /\ op'.this = a /\ op'.other = b /\ a # b
            /\ ~op'.thrown /\ ~aborted') =>
             /\ ListVals(a)' = ListVals(b)
             /\ size_'[a] = size_[b]
             /\ ListVals(b)' = ListVals(b)
             /\ ListNodes(b)' = ListNodes(b)
             /\ size_'[b] = size_[b]
             /\ NodeSet(a)' \cap NodeSet(b)' = {}]_vars

\* C5: constructing a list from a sequence s (the empty one included) returns
\* normally or with an allocation failure, and when it returns normally the
\* list iterates exactly s and GetSize() is the length of s
C5_SequenceConstructs ==
    op.name = "SequenceConstruct" =>
        /\ ~aborted
        /\ (op.vals = <<>> => ~op.thrown)
        /\ ~op.thrown =>
              /\ live[op.this]
              /\ ListVals(op.this) = op.vals
              /\ GetSize(Cur, op.this) = Len(op.vals)

\* C6: a = a completes normally and changes nothing, and no assertion fails
C6_SelfAssignNoOp ==
    [][(op'.name = "Assign" /\ op'.this = op'.other) =>
         /\ ~aborted'
         /\ ~op'.thrown
         /\ UNCHANGED <<value, next_node, size_, alloc, live>>]_vars

\* operations that mutate the list they are called on
Mutators ==
    {"PushFront", "InsertAfter", "PopFront", "EraseAfter", "Clear",
     "WriteValue"}

C7_WitnessMutated ==
    /\ op.name \in Mutators /\ ~op.thrown
    /\ \E l1 \in Lists : l1 # op.this /\ live[l1] /\ ListVals(l1) # <<>>

\* C8: when a node allocation fails in PushFront, InsertAfter, a constructor
\* or the assignment, every list alive before the call keeps its element
\* sequence, nodes and size, no list comes into being, and the size/chain
\* invariant still holds
C8_FailedAllocChangesNothing ==
    [][op'.thrown =>
         /\ live' = live
         /\ \A l \in Lists : live[l] =>
               /\ ListVals(l)' = ListVals(l)
               /\ ListNodes(l)' = ListNodes(l)
               /\ size_'[l] = size_[l]
         /\ C1_SizeEqualsChain']_vars

\* an allocation failed while a non-empty list was being copied into a
\* non-empty list
C8_Witness ==
    /\ op.thrown /\ op.name = "Assign"
    /\ ListVals(op.this) # <<>>
    /\ Len(ListVals(op.other)) >= 2

\* position of the node pos in l; 0 for the sentinel
IndexOf(l, pos) ==
    IF pos = head_(l) THEN 0
    ELSE CHOOSE i \in 1..Len(ListNodes(l)) : ListNodes(l)[i] = pos

InsertAt(seq, k, x) ==
    SubSeq(seq, 1, k) \o <<x>> \o SubSeq(seq, k + 1, Len(seq))
RemoveAt(seq, k) ==
    SubSeq(seq, 1, k - 1) \o SubSeq(seq, k + 1, Len(seq))

\* C9: InsertAfter(pos, x) puts one new node holding x right after pos and
\* before the former successor of pos, keeps all other elements and their
\* order, adds 1 to GetSize() and returns a cursor to the new node
C9_InsertAfterInserts ==
    [][\A l \in Lists, pos \in Addrs :
         (op'.name = "InsertAfter" /\ op'.this = l /\ op'.pos = pos
            /\ ~op'.thrown) =>
             /\ op'.ret \in Nodes \ alloc
             /\ alloc' = alloc \cup {op'.ret}
             /\ ListNodes(l)' = InsertAt(ListNodes(l), IndexOf(l, pos), op'.ret)
             /\ ListVals(l)' = InsertAt(ListVals(l), IndexOf(l, pos), op'.val)
             /\ size_'[l] = size_[l] + 1
             /\ next_node'[pos] = op'.ret
             /\ next_node'[op'.ret] = next_node[pos]
             /\ value'[op'.ret] = op'.val]_vars

\* InsertAfter(cursor at a, x) on [a, b] has given [a, x, b]
C9_Witness ==
    /\ op.name = "InsertAfter" /\ ~op.thrown
    /\ op.pos \in Nodes
    /\ Len(ListNodes(op.this)) = 3
    /\ ListNodes(op.this)[1] = op.pos
    /\ ListNodes(op.this)[2] = op.ret
    /\ ListVals(op.this)[2] # ListVals(op.this)[1]
    /\ ListVals(op.this)[2] # ListVals(op.this)[3]

\* InsertAfter(before_begin(), x) on [a, b] has given [x, a, b]
C9_WitnessFront ==
    /\ op.name = "InsertAfter" /\ ~op.thrown
    /\ op.pos = head_(op.this)
    /\ Len(ListNodes(op.this)) = 3
    /\ ListNodes(op.this)[1] = op.ret

\* C10: EraseAfter(pos) on a non-empty list deletes exactly the node after
\* pos, links pos to the node after the removed one, subtracts 1 from
\* GetSize(), keeps the other elements and their order and returns a cursor
\* to the node that followed the removed one (nullptr if none); on an empty
\* list it changes nothing and returns nullptr
C10_EraseAfterErases ==
    [][\A l \in Lists, pos \in Addrs \cup {nullptr} :
         (op'.name = "EraseAfter" /\ op'.this = l /\ op'.pos = pos) =>
             IF ListNodes(l) = <<>>
             THEN /\ UNCHANGED <<value, next_node, size_, alloc, live>>
                  /\ op'.ret = nullptr
             ELSE /\ alloc' = alloc \ {next_node[pos]}
                  /\ next_node[pos] \in alloc
                  /\ ListNodes(l)' = RemoveAt(ListNodes(l), IndexOf(l, pos) + 1)
                  /\ ListVals(l)' = RemoveAt(ListVals(l), IndexOf(l, pos) + 1)
                  /\ size_'[l] = size_[l] - 1
                  /\ next_node'[pos] = next_node[next_node[pos]]
                  /\ op'.ret = next_node[next_node[pos]]]_vars

\* EraseAfter(cursor at a) on [a, b, c] has given [a, c] and returned the
\* cursor at c
C10_Witness ==
    /\ op.name = "EraseAfter"
    /\ op.pos \in Nodes
    /\ Len(ListNodes(op.this)) = 2
    /\ ListNodes(op.this)[1] = op.pos
    /\ ListNodes(op.this)[2] = op.ret

\* EraseAfter on an empty list
C10_WitnessEmpty ==
    /\ op.name = "EraseAfter"
    /\ op.pos = nullptr /\ op.ret = nullptr
    /\ live[op.this] /\ ListNodes(op.this) = <<>>
    /\ alloc # {}

\* C11: PushFront(x) on a list with elements s gives x followed by s, adds
\* 1 to GetSize() and changes neither the value nor the identity of any node
\* the list already had
C11_PushFrontPrepends ==
    [][\A l \in Lists :
         (op'.name = "PushFront" /\ op'.this = l /\ ~op'.thrown) =>
             /\ ListVals(l)' = <<op'.val>> \o ListVals(l)
             /\ Tail(ListNodes(l)') = ListNodes(l)
             /\ Head(ListNodes(l)') \in Nodes \ alloc
             /\ alloc' = alloc \cup {Head(ListNodes(l)')}
             /\ size_'[l] = size_[l] + 1
             /\ \A n \in NodeSet(l) : value'[n] = value[n]]_vars

\* PushFront(x) on [a, b] has given [x, a, b] with x different from a
C11_Witness ==
    /\ op.name = "PushFront" /\ ~op.thrown
    /\ Len(ListVals(op.this)) = 3
    /\ ListVals(op.this)[1] = op.val
    /\ ListVals(op.this)[2] # op.val

\* C12: PopFront() on a non-empty list deletes exactly the first node, keeps
\* the remaining elements in order and subtracts 1 from GetSize(); on an
\* empty list it changes nothing, raises no error and the list stays empty
C12_PopFrontRemovesFirst ==
    [][\A l \in Lists :
         (op'.name = "PopFront" /\ op'.this = l) =>
             /\ ~aborted' /\ ~op'.thrown /\ ~double_free'
             /\ IF ListNodes(l) = <<>>
                THEN /\ UNCHANGED <<value, next_node, size_, alloc, live>>
                     /\ ListNodes(l)' = <<>> /\ size_'[l] = 0
                ELSE /\ alloc' = alloc \ {Head(ListNodes(l))}
                     /\ Head(ListNodes(l)) \in alloc
                     /\ ListNodes(l)' = Tail(ListNodes(l))
                     /\ ListVals(l)' = Tail(ListVals(l))
                     /\ size_'[l] = size_[l] - 1]_vars

\* PopFront() on [a, b, c] has given [b, c]
C12_Witness ==
    /\ op.name = "PopFront"
    /\ Len(ListVals(op.this)) = 2
    /\ ListVals(op.this)[1] # ListVals(op.this)[2]
    /\ Cardinality(alloc) = 2 /\ live[op.this]

\* PopFront() on an empty list after another list was built
C12_WitnessEmpty ==
    /\ op.name = "PopFront"
    /\ live[op.this] /\ ListNodes(op.this) = <<>>
    /\ \E m \in Lists : live[m] /\ Len(ListNodes(m)) = MaxNodes

\* C13: after Clear() the list is empty (IsEmpty(), GetSize() = 0,
\* head_.next_node = nullptr) and every node it owned has been deleted, each
\* once; Clear() on an empty list changes nothing
C13_ClearEmpties ==
    [][\A l \in Lists :
         (op'.name = "Clear" /\ op'.this = l) =>
             /\ IsEmpty(Cur, l)'
             /\ size_'[l] = 0
             /\ next_node'[head_(l)] = nullptr
             /\ NodeSet(l) \subseteq alloc
             /\ alloc' = alloc \ NodeSet(l)
             /\ ~double_free'
             /\ ListNodes(l) = <<>> =>
                   UNCHANGED <<value, next_node, size_, alloc, live>>]_vars

\* Clear() has just left a list empty and the heap without any node
C13_Witness ==
    /\ op.name = "Clear"
    /\ live[op.this] /\ size_[op.this] = 0
    /\ alloc = {}
    /\ \E m \in Lists : m # op.this /\ live[m]

\* begin() == end() for the list l
BeginIsEnd(l) == next_node[head_(l)] = nullptr

\* C14: for every live list, IsEmpty(), GetSize() = 0 and begin() == end()
\* are all true or all false
C14_EmptinessAgrees ==
    \A l \in Lists : live[l] =>
        /\ IsEmpty(Cur, l) <=> (GetSize(Cur, l) = 0)
        /\ (GetSize(Cur, l) = 0) <=> BeginIsEnd(l)

\* an empty and a non-empty list are alive after a swap exchanged them
C14_Witness ==
    /\ op.name = "swap" /\ op.this # op.other
    /\ live[op.this] /\ live[op.other]
    /\ BeginIsEnd(op.other) /\ ~BeginIsEnd(op.this)

\* the lists a and b have the same size and equal elements at every position
SameElements(a, b) ==
    /\ Len(ListVals(a)) = Len(ListVals(b))
    /\ \A i \in 1..Len(ListVals(a)) : ListVals(a)[i] = ListVals(b)[i]

C15_WitnessEqual ==
    \E a, b \in Lists :
        /\ a # b /\ live[a] /\ live[b]
        /\ ListVals(a) # <<>> /\ ListVals(a) = ListVals(b)
        /\ next_node[head_(a)] # next_node[head_(b)]
        /\ OperatorEq(Cur, a, b)

\* s is lexicographically smaller than t: after a common prefix of length k
\* either s ends and t does not, or s has the smaller element
LexSmaller(s, t) ==
    \E k \in 0..Len(s) :
        /\ k <= Len(t)
        /\ \A i \in 1..k : s[i] = t[i]
        /\ \/ k = Len(s) /\ k < Len(t)
           \/ k < Len(s) /\ k < Len(t) /\ s[k + 1] < t[k + 1]

C16_WitnessLonger ==
    \E a, b \in Lists :
        /\ live[a] /\ live[b]
        /\ Len(ListVals(a)) = 2 /\ Len(ListVals(b)) = 1
        /\ OperatorLess(Cur, a, b) /\ OperatorGreaterEq(Cur, b, a)

\* the sentinels of the live lists and the allocated nodes: every place a
\* link to a node can come from
LinkSources == {head_(l) : l \in {m \in Lists : live[m]}} \cup alloc

\* C17: every allocated node is reachable from the sentinel of exactly one
\* live list and has exactly one incoming next_node link; no list links to a
\* deleted node, no node was deleted twice, no node is allocated but
\* unreachable, and once every list is destroyed no node is allocated
C17_SingleOwner ==
    /\ ~double_free
    /\ \A l \in Lists : live[l] => NodeSet(l) \subseteq alloc
    /\ \A n \in alloc :
          /\ Cardinality({l \in Lists : live[l] /\ n \in NodeSet(l)}) = 1
          /\ Cardinality({a \in LinkSources : next_node[a] = n}) = 1
    /\ (\A l \in Lists : ~live[l]) => alloc = {}

\* an assignment has replaced the nodes of a non-empty list by a copy of
\* another non-empty list
C17_Witness ==
    /\ op.name = "Assign" /\ ~op.thrown /\ ~aborted
    /\ op.this # op.other
    /\ ListVals(op.this) # <<>>
    /\ ListVals(op.this) = ListVals(op.other)
    /\ Cardinality(alloc) = 2 * Len(ListVals(op.this))

\* the last list has been destroyed
C17_WitnessAllDestroyed ==
    /\ op.name = "Destroy"
    /\ \A l \in Lists : ~live[l]

\* the call just made removes the node n from the list l
Removes(l, n) ==
    /\ op'.this = l
    /\ \/ op'.name = "PopFront" /\ n = Head(ListNodes(l))
       \/ op'.name = "EraseAfter" /\ n = next_node[op'.pos]
       \/ op'.name \in {"Clear", "Destroy"}
       \* the temporary that took over the old chain is destroyed
       \/ op'.name = "Assign"

\* C18: a cursor at a real node n of l still references the same live node
\* of l with the same value after a PushFront, InsertAfter, PopFront or
\* EraseAfter on l that does not remove n; and n is deleted only by a call
\* that removes it (PopFront, EraseAfter, Clear, destruction)
C18_CursorsStayValid ==
    [][\A l \in Lists, n \in Nodes :
         (live[l] /\ n \in NodeSet(l)) =>
             /\ (/\ op'.name \in {"PushFront", "InsertAfter", "PopFront",
                                  "EraseAfter"}
                 /\ op'.this = l
                 /\ ~Removes(l, n)) =>
                    /\ n \in alloc'
                    /\ n \in NodeSet(l)'
                    /\ value'[n] = value[n]
             /\ n \notin alloc' => Removes(l, n)]_vars

\* EraseAfter(cursor at b) on [a, b, c]: the cursor still references b
C18_Witness ==
    /\ op.name = "EraseAfter"
    /\ op.pos \in alloc
    /\ Len(ListNodes(op.this)) = 2
    /\ ListNodes(op.this)[2] = op.pos
    /\ op.ret = nullptr

\* C19: the assert at the start of operator= holds on every call a = b with
\* distinct lists a and b, two empty lists included
C19_AssignAssertHolds ==
    [][(op'.name = "Assign" /\ op'.this # op'.other) => ~aborted']_vars

\* C20: after a call of the public helpers InitHead and SetSize, as after
\* every other public call, GetSize() is the number of reachable nodes of
\* every live list and no allocated node is unreachable
C20_PublicCallsKeepInvariant ==
    /\ \A l \in Lists : live[l] => GetSize(Cur, l) = Len(ListNodes(l))
    /\ \A n \in alloc : \E l \in Lists : live[l] /\ n \in NodeSet(l)

\* the same, looked at right after InitHead on a list that was not empty
C20_InitHeadKeepsInvariant ==
    (op.name = "InitHead" /\ ~op.thrown /\ Cardinality(alloc) >= 2) =>
        C20_PublicCallsKeepInvariant

====
